---- MODULE Spec2Model ----
(***************************************************************************)
(* A model of the mempool-to-pool correlation pipeline of watching_pools:  *)
(* src/src/watching.rs (watching_pool, trace_state_diff) and               *)
(* src/src/utils.rs (calculate_next_block_base_fee).                       *)
(*                                                                         *)
(* Four specifications share the module:                                   *)
(*   Spec          the pipeline: the two watchers, the broadcast channel,  *)
(*                 the event-handling task and the JoinSet loop;           *)
(*   SpecFee       calculate_next_block_base_fee applied to drawn inputs;  *)
(*   SpecAnalyzer  trace_state_diff applied to drawn trace_call responses; *)
(*   SpecWatchers  the two watchers with the items of their streams.       *)
(*                                                                         *)
(* Option<T> is modelled as a sequence: <<>> is None, <<v>> is Some(v).    *)
(* The same shape carries the outcome of U256 arithmetic, whose operators  *)
(* panic on overflow: <<>> is the panic, <<v>> the value.                  *)
(***************************************************************************)
EXTENDS Integers, Sequences, FiniteSets, TLC

VARIABLES
    block_task,       \* task 1 (watching.rs:210): "running" | "finished"
    tx_task,          \* task 2 (watching.rs:242): "running" | "finished"
    corr_task,        \* task 3 (watching.rs:271): "unspawned" | "recv" | "tracing" | "panicked"
    bus,              \* every event sent on event_sender, in send order
    recv_next,        \* event_receiver: position in bus of the next event to receive
    recv_start,       \* the position event_receiver started at when it was subscribed
    received,         \* positions of bus that recv() returned as Ok(event), in order
    missed,           \* events skipped by the receiver: the sum of the n of every Err(Lagged(n))
    new_block,        \* the local new_block of task 3 (watching.rs:273)
    invocations,      \* calls of trace_state_diff made by task 3: [pos, tx, block_number]
    trace_result,     \* result of the last trace_state_diff call: "none" | "Ok" | "Err"
    balance_changes,  \* "Balance change" lines logged by the last trace_state_diff call
    joined,           \* tasks whose result set.join_next() has returned
    sup,              \* watching_pool from line 267 on: "spawning" | "joining" | "returned"
    fee_call,         \* SpecFee: arguments and return of one calculate_next_block_base_fee call
    an_call,          \* SpecAnalyzer: trace_call response handed to one trace_state_diff call
    headers,          \* SpecWatchers: the headers the block subscription has yielded
    tx_results        \* SpecWatchers: the results the pending-transaction stream has yielded

vars == <<block_task, tx_task, corr_task, bus, recv_next, recv_start, received, missed,
          new_block, invocations, trace_result, balance_changes, joined, sup, fee_call,
          an_call, headers, tx_results>>

pipeline_vars == <<block_task, tx_task, corr_task, bus, recv_next, recv_start, received,
                   missed, new_block, invocations, joined, sup, headers, tx_results>>

(***************************************************************************)
(* Bounds of the model.                                                    *)
(***************************************************************************)
\* Events the two watchers send in one run.
MaxEvents == 3
\* Slots of the broadcast channel. The program creates it with 512 slots
\* (watching.rs:194); the model keeps the drop-oldest behaviour and scales the
\* number of slots down so that a run of MaxEvents events can overflow it.
BusCapacity == 1
\* Largest gas_used and gas_limit drawn in SpecFee.
MaxGas == 5
\* Items the two streams yield in one run of SpecWatchers.
MaxStream == 3

(***************************************************************************)
(* Option<T>                                                               *)
(***************************************************************************)
None == <<>>

Some(v) == <<v>>

\* A default other than U256::default().
unwrap_or_one(o) == IF o = None THEN 1 ELSE o[1]

\* Option::unwrap_or_default for U256: zero when there is no value.
unwrap_or_default(o) == IF o = None THEN 0 ELSE o[1]

(***************************************************************************)
(* utils.rs: calculate_next_block_base_fee                                 *)
(***************************************************************************)
\* rand::thread_rng().gen_range(0..9): the upper end is excluded.
SeedRange == 9

Seeds == 0 .. (SeedRange - 1)

BaseFeeChangeDenominator == 8

\* U256 `-`: panics ("arithmetic operation overflow") when the result is negative.
u256_sub(a, b) == IF a >= b THEN Some(a - b) ELSE None

target_gas_used(gas_limit) ==
    IF gas_limit \div 2 = 0 THEN 1 ELSE gas_limit \div 2

\* The increase branch taking the delta off the base fee.
new_base_fee_lowered(gas_used, gas_limit, base_fee_per_gas) ==
    LET target == target_gas_used(gas_limit) IN
    IF gas_used > target
    THEN u256_sub(base_fee_per_gas,
                  ((base_fee_per_gas * (gas_used - target)) \div target)
                       \div BaseFeeChangeDenominator)
    ELSE Some(base_fee_per_gas)

\* The block `new_base_fee` of utils.rs:19-37, before the jitter is added.
new_base_fee(gas_used, gas_limit, base_fee_per_gas) ==
    LET target == target_gas_used(gas_limit) IN
    IF gas_used > target
    THEN Some(base_fee_per_gas
              + ((base_fee_per_gas * (gas_used - target)) \div target)
                    \div BaseFeeChangeDenominator)
    ELSE LET d == u256_sub(gas_used, target) IN
         IF d = None
         THEN None
         ELSE u256_sub(base_fee_per_gas,
                       ((base_fee_per_gas * d[1]) \div target)
                            \div BaseFeeChangeDenominator)

calculate_next_block_base_fee(gas_used, gas_limit, base_fee_per_gas, seed) ==
    LET fee == new_base_fee(gas_used, gas_limit, base_fee_per_gas) IN
    IF fee = None THEN None ELSE Some(fee[1] + seed)

(***************************************************************************)
(* watching.rs: trace_state_diff                                           *)
(***************************************************************************)
\* The token watching_pool is started with (main.rs:11).
target_address == "WETH"

\* Accounts a simulated transaction can touch.
Addresses == {"WETH", "PoolA", "PoolB", "PoolC", "EOA"}

UniswapV2(address, token_a, token_b) ==
    [variant |-> "UniswapV2", address |-> address, token_a |-> token_a, token_b |-> token_b]

UniswapV3(address, token_a, token_b) ==
    [variant |-> "UniswapV3", address |-> address, token_a |-> token_a, token_b |-> token_b]

\* The DashMap filled once at start-up (watching.rs:188-190), keyed by pool
\* address: a V3 pool holding the target as token_a, a V2 pool holding it as
\* token_b, and a pool that does not hold it. "EOA" is in no pool.
pools ==
    [a \in {"PoolA", "PoolB", "PoolC"} |->
        CASE a = "PoolA" -> UniswapV3("PoolA", "WETH", "USDC")
          [] a = "PoolB" -> UniswapV2("PoolB", "USDC", "WETH")
          [] a = "PoolC" -> UniswapV3("PoolC", "USDC", "DAI")]

BalanceSlotIndex == 3

\* keccak256(abi::encode(&[Address(pool), Uint(3)])): the hash is modelled as
\* the pair it digests, that is as an injective function of its input.
balance_slot(address) == <<address, BalanceSlotIndex>>

Slots == {balance_slot(a) : a \in DOMAIN pools}

Amounts == {1000, 1500}

\* ethers' Diff<H256> of one storage slot.
Same == [kind |-> "Same", from |-> 0, to |-> 0]

Born(v) == [kind |-> "Born", from |-> 0, to |-> v]

Died(v) == [kind |-> "Died", from |-> v, to |-> 0]

Changed(from, to) == [kind |-> "Changed", from |-> from, to |-> to]

Diffs ==
    {Same} \cup {Born(v) : v \in Amounts} \cup {Died(v) : v \in Amounts}
           \cup {Changed(f, t) : f \in Amounts, t \in Amounts}

\* The storage maps an account diff can carry: any slots, any Diff at each.
Storages == UNION {[S -> Diffs] : S \in SUBSET Slots}

AccountDiff(storage) == [storage |-> storage]

\* The BTreeMap<H160, AccountDiff> of a trace: the touched accounts. Only the
\* storage of the target's account is ever read.
StateDiffs ==
    UNION {
        {[a \in K |-> AccountDiff(<<>>)]}
        \cup {[a \in K \cup {target_address} |->
                  IF a = target_address THEN AccountDiff(st) ELSE AccountDiff(<<>>)]
              : st \in Storages}
        : K \in SUBSET (Addresses \ {target_address})}

\* What provider.trace_call(..).await gives: the call fails, or it returns a
\* BlockTrace whose state_diff is None or Some(map).
TraceErr == [ok |-> FALSE, state_diff |-> None]

TraceOk(state_diff) == [ok |-> TRUE, state_diff |-> state_diff]

TraceResponses ==
    {TraceErr, TraceOk(None)} \cup {TraceOk(Some(d)) : d \in StateDiffs}

AnalyzerOk(changes) == [result |-> "Ok", error |-> "", changes |-> changes]

AnalyzerErr(e) == [result |-> "Err", error |-> e, changes |-> {}]

\* watching.rs:100-104: the pool holds the target as either token.
holds_target(pool, target) == target \in {pool.token_a, pool.token_b}

\* watching.rs:78-105: the registry pools among the touched accounts that hold the target.
touched_pools(state_diff, registry, target) ==
    {registry[a] : a \in {x \in DOMAIN state_diff \cap DOMAIN registry :
                             holds_target(registry[x], target)}}

\* The comparison of watching.rs:129 made non-strict.
balance_not_decreased(from, to) == to >= from

\* watching.rs:129.
balance_increased(from, to) == to > from

\* watching.rs:116-143: the lines logged, one per pool whose slot has a
\* Changed entry with a greater new value.
logged_changes(touched, storage) ==
    {[pool |-> p.address,
      from |-> storage[balance_slot(p.address)].from,
      to   |-> storage[balance_slot(p.address)].to] :
        p \in {q \in touched :
                 /\ balance_slot(q.address) \in DOMAIN storage
                 /\ storage[balance_slot(q.address)].kind = "Changed"
                 /\ balance_increased(storage[balance_slot(q.address)].from,
                                      storage[balance_slot(q.address)].to)}}

\* watching.rs:49-145, as a function of what trace_call returned.
trace_state_diff(response, registry, target) ==
    IF ~response.ok
    THEN AnalyzerErr("trace_call failed")
    ELSE IF response.state_diff = None
    THEN AnalyzerErr("state diff does not exist")
    ELSE LET state_diff == response.state_diff[1]
             touched    == touched_pools(state_diff, registry, target)
         IN IF touched = {}
            THEN AnalyzerOk({})
            ELSE IF target \notin DOMAIN state_diff
            THEN AnalyzerErr("no target storage")
            ELSE AnalyzerOk(logged_changes(touched, state_diff[target].storage))

(***************************************************************************)
(* watching.rs: watching_pool                                              *)
(***************************************************************************)
\* NewBlock::default() (watching.rs:29, 273); the timestamp is never read and
\* is left out.
DefaultBlock == [number |-> 0, gas_used |-> 0, gas_limit |-> 0, base_fee_per_gas |-> 0]

DefaultTx == [max_fee_per_gas |-> None]

\* A header of the block subscription (the fields watching.rs:213-222 reads).
Header(number, gas_used, gas_limit, base_fee_per_gas) ==
    [number |-> number, gas_used |-> gas_used, gas_limit |-> gas_limit,
     base_fee_per_gas |-> base_fee_per_gas]

\* Headers the block subscription can deliver, all with gas_limit 4 (target 2):
\* at the target, below it, above it and without a base fee, numbered 0, and
\* without a number.
Headers ==
    {Header(Some(1), 2, 4, Some(100)),
     Header(Some(1), 1, 4, Some(100)),
     Header(Some(1), 4, 4, None),
     Header(Some(0), 2, 4, Some(100)),
     Header(None, 2, 4, Some(100))}

\* Pending transactions the node can resolve.
Transactions == {[max_fee_per_gas |-> f] : f \in {None, Some(99), Some(104), Some(150)}}

\* watching.rs:213-222: the NewBlock built from a header that has a number.
block_of_header(h) ==
    [number           |-> h.number[1],
     gas_used         |-> h.gas_used,
     gas_limit        |-> h.gas_limit,
     base_fee_per_gas |-> unwrap_or_default(h.base_fee_per_gas)]

\* The enum Event (watching.rs:38-41).
EventNewBlock(block) == [kind |-> "NewBlock", block |-> block, tx |-> DefaultTx]

EventTransaction(tx) == [kind |-> "Transaction", block |-> DefaultBlock, tx |-> tx]

Tasks == {"block", "tx", "correlator"}

\* The tasks of the JoinSet that have run to their end (or panicked).
Terminated ==
    {t \in Tasks : \/ t = "block" /\ block_task = "finished"
                   \/ t = "tx" /\ tx_task = "finished"
                   \/ t = "correlator" /\ corr_task = "panicked"}

\* Event_sender.send: the channel keeps the last BusCapacity events; the
\* receiver `_receiver` of watching.rs:194 lives as long as watching_pool, so a
\* send always stores its event. `bus` keeps the whole history; the channel
\* holds the positions from oldest_retained on.
send(channel, event) == Append(channel, event)

\* The receivers alive: `_receiver` (watching.rs:194) and, while task 3 lives,
\* its event_receiver (watching.rs:269).
receivers(task3) == IF task3 \in {"recv", "tracing"} THEN 2 ELSE 1

\* What send returns: Err only when no receiver is alive.
send_result(receiver_count) == IF receiver_count > 0 THEN "Ok" ELSE "Err"

\* A sender that waits for room while the receiver still has BusCapacity unread events.
send_ready_with_room(channel, next) == Len(channel) - next + 1 < BusCapacity

\* broadcast::Sender::send is not async: it never waits, whatever the
\* receiver's position (watching.rs:229, 258).
send_ready(channel, next) == TRUE

\* watching.rs:229-233, 258-261: both arms of the match on send's result are
\* empty; the watcher goes on to its next stream item.
after_send(result) == "running"

\* A failed resolution ends the watcher (as `?` or unwrap would).
after_resolve_propagating(result) == IF result = "Err" THEN "finished" ELSE "running"

\* watching.rs:255-263: after Ok(tx) and after Err(_) alike the loop takes the
\* next item of the stream.
after_resolve(result) == "running"

oldest_retained(channel) ==
    IF Len(channel) > BusCapacity THEN Len(channel) - BusCapacity + 1 ELSE 1

\* event_receiver.recv() returns Err(Lagged) when the next position was overwritten.
lagged(channel, next) == next < oldest_retained(channel)

\* A receiver that hands out an event and stays on it.
advance_stuck(next) == next

\* recv() returned Ok(event): the receiver moves to the next position.
advance(next) == next + 1

\* The Err arm of watching.rs:327 ends the task (as unwrap on recv() would).
after_recv_error_fatal(skipped) == "panicked"

\* watching.rs:327: Err(_) => {}: task 3 stays in its loop after Lagged(skipped).
after_recv_error(skipped) == "recv"

\* The Err arm of watching.rs:321 ends the task (as `?` or unwrap would).
after_trace_propagating(result) == IF result = "Err" THEN "panicked" ELSE "recv"

\* watching.rs:319-322: both arms of the match on the result of
\* trace_state_diff are empty, so task 3 is back at recv() whatever the result.
after_trace(result) == "recv"

\* The guard of watching.rs:295 left out.
block_observed_always(block) == TRUE

\* watching.rs:295.
block_observed(block) == block.number # 0

\* new_block is replaced only by a block that is not older.
replace_block_if_newer(current, block) ==
    IF block.number >= current.number THEN block ELSE current

\* The assignment is lost.
replace_block_never(current, block) == current

\* watching.rs:288: new_block = block, with no look at the block held.
replace_block(current, block) == block

\* watching.rs:307-308.
fee_clears(tx, next_base_fee) == unwrap_or_default(tx.max_fee_per_gas) > next_base_fee

\* The state once tasks 1 and 2 are spawned (watching.rs:210, 242): the main
\* flow has not yet subscribed event_receiver nor spawned task 3.
PipelineInit ==
    /\ block_task = "running"
    /\ tx_task = "running"
    /\ corr_task = "unspawned"
    /\ bus = <<>>
    /\ recv_next = 1
    /\ recv_start = 1
    /\ received = <<>>
    /\ missed = 0
    /\ new_block = DefaultBlock
    /\ invocations = {}
    /\ joined = {}
    /\ sup = "spawning"
    /\ headers = <<>>
    /\ tx_results = <<>>

NoFeeCall == [called |-> FALSE, gas_used |-> 0, gas_limit |-> 0, base_fee_per_gas |-> 0,
              ret |-> None]

NoAnalyzerCall == [called |-> FALSE, response |-> TraceErr]

Init ==
    /\ PipelineInit
    /\ trace_result = "none"
    /\ balance_changes = {}
    /\ fee_call = NoFeeCall
    /\ an_call = NoAnalyzerCall

harness_vars == <<fee_call, an_call>>

corr_vars == <<corr_task, recv_next, recv_start, received, missed, new_block, invocations,
               trace_result, balance_changes>>

sup_vars == <<joined, sup>>

stream_vars == <<headers, tx_results>>

\* What subscribe_pending_txs().transactions_unordered(256) yields: a resolved
\* transaction or the error of one resolution.
ResolveOk(tx) == [ok |-> TRUE, tx |-> tx]

ResolveErr == [ok |-> FALSE, tx |-> DefaultTx]

Resolutions == {ResolveOk(tx) : tx \in Transactions} \cup {ResolveErr}

\* watching.rs:226-234, a header with a number: the NewBlock is sent.
block_publish(h) ==
    /\ block_task = "running"
    /\ send_ready(bus, recv_next)
    /\ Len(bus) < MaxEvents
    /\ h.number # None
    /\ bus' = send(bus, EventNewBlock(block_of_header(h)))
    /\ block_task' = after_send(send_result(receivers(corr_task)))
    /\ UNCHANGED <<tx_task, corr_vars, sup_vars, harness_vars>>

\* watching.rs:213-222, a header without a number: filter_map drops it.
block_discard(h) ==
    /\ block_task = "running"
    /\ h.number = None
    /\ UNCHANGED <<block_task, tx_task, bus, corr_vars, sup_vars, harness_vars>>

\* watching.rs:254-261, Ok(tx): the Transaction is sent.
tx_publish(r) ==
    /\ tx_task = "running"
    /\ send_ready(bus, recv_next)
    /\ Len(bus) < MaxEvents
    /\ r.ok
    /\ bus' = send(bus, EventTransaction(r.tx))
    /\ tx_task' = after_send(send_result(receivers(corr_task)))
    /\ UNCHANGED <<block_task, corr_vars, sup_vars, harness_vars>>

\* watching.rs:262, Err(_): the body of one transaction could not be resolved.
tx_skip(r) ==
    /\ tx_task = "running"
    /\ ~r.ok
    /\ tx_task' = after_resolve("Err")
    /\ UNCHANGED <<block_task, bus, corr_vars, sup_vars, harness_vars>>

BlockWatcherPublish ==
    /\ \E h \in Headers : block_publish(h)
    /\ UNCHANGED stream_vars

BlockWatcherDiscard ==
    /\ \E h \in Headers : block_discard(h)
    /\ UNCHANGED stream_vars

\* watching.rs:226: the stream ends (or subscribe_blocks fails, line 211) and the task ends.
BlockWatcherEnd ==
    /\ block_task = "running"
    /\ block_task' = "finished"
    /\ UNCHANGED <<tx_task, bus, corr_vars, sup_vars, harness_vars, stream_vars>>

TxWatcherPublish ==
    /\ \E r \in Resolutions : tx_publish(r)
    /\ UNCHANGED stream_vars

TxWatcherSkip ==
    /\ \E r \in Resolutions : tx_skip(r)
    /\ UNCHANGED stream_vars

\* watching.rs:254: the stream ends (or subscribe_pending_txs fails, line 245).
TxWatcherEnd ==
    /\ tx_task = "running"
    /\ tx_task' = "finished"
    /\ UNCHANGED <<block_task, bus, corr_vars, sup_vars, harness_vars, stream_vars>>

\* watching.rs:267-331: the main flow, after spawning tasks 1 and 2, subscribes
\* event_receiver, which starts at the channel's tail, spawns task 3 with it and
\* goes on to join_next(). No await separates these lines.
SubscribeAndSpawn ==
    /\ sup = "spawning"
    /\ sup' = "joining"
    /\ corr_task' = "recv"
    /\ recv_next' = Len(bus) + 1
    /\ recv_start' = Len(bus) + 1
    /\ UNCHANGED <<block_task, tx_task, bus, received, missed, new_block, invocations,
                   trace_result, balance_changes, joined, harness_vars, stream_vars>>

\* watching.rs:278, 327: recv() returns Err(Lagged); the receiver now stands at
\* the oldest event the channel still holds, and the loop goes on.
CorrelatorLagged ==
    /\ corr_task = "recv"
    /\ recv_next <= Len(bus)
    /\ lagged(bus, recv_next)
    /\ recv_next' = oldest_retained(bus)
    /\ missed' = missed + (oldest_retained(bus) - recv_next)
    /\ corr_task' = after_recv_error(oldest_retained(bus) - recv_next)
    /\ UNCHANGED <<block_task, tx_task, bus, recv_start, received, new_block,
                   invocations, trace_result, balance_changes, sup_vars, harness_vars,
                   stream_vars>>

\* watching.rs:285-290.
CorrelatorNewBlock ==
    /\ corr_task = "recv"
    /\ recv_next <= Len(bus)
    /\ ~lagged(bus, recv_next)
    /\ bus[recv_next].kind = "NewBlock"
    /\ recv_next' = advance(recv_next)
    /\ received' = Append(received, recv_next)
    /\ new_block' = replace_block(new_block, bus[recv_next].block)
    /\ UNCHANGED <<block_task, tx_task, corr_task, bus, recv_start, missed,
                   invocations, trace_result, balance_changes, sup_vars, harness_vars,
                   stream_vars>>

\* watching.rs:293-325, up to the .await of trace_state_diff.
CorrelatorTransaction ==
    /\ corr_task = "recv"
    /\ recv_next <= Len(bus)
    /\ ~lagged(bus, recv_next)
    /\ bus[recv_next].kind = "Transaction"
    /\ recv_next' = advance(recv_next)
    /\ received' = Append(received, recv_next)
    /\ LET tx == bus[recv_next].tx IN
       IF ~block_observed(new_block)
       THEN UNCHANGED <<corr_task, invocations>>
       ELSE \E seed \in Seeds :
               LET next_base_fee ==
                       calculate_next_block_base_fee(new_block.gas_used, new_block.gas_limit,
                                                     new_block.base_fee_per_gas, seed)
               IN IF next_base_fee = None
                  THEN /\ corr_task' = "panicked"
                       /\ UNCHANGED invocations
                  ELSE IF fee_clears(tx, next_base_fee[1])
                  THEN /\ corr_task' = "tracing"
                       /\ invocations' = invocations \cup
                              {[pos |-> recv_next, tx |-> tx, block_number |-> new_block.number]}
                  ELSE UNCHANGED <<corr_task, invocations>>
    /\ UNCHANGED <<block_task, tx_task, bus, recv_start, missed, new_block,
                   trace_result, balance_changes, sup_vars, harness_vars, stream_vars>>

\* The trace_call responses drawn in the pipeline: a failed call, no state diff,
\* a diff that touches no pool, one that touches a pool of the target without
\* the target's account, and one with an increase at the pool's slot.
PipelineResponses ==
    {TraceErr,
     TraceOk(None),
     TraceOk(Some([a \in {"EOA"} |-> AccountDiff(<<>>)])),
     TraceOk(Some([a \in {"PoolA"} |-> AccountDiff(<<>>)])),
     TraceOk(Some([a \in {"PoolA", "WETH"} |->
                      IF a = "WETH"
                      THEN AccountDiff([s \in {balance_slot("PoolA")} |-> Changed(1000, 1500)])
                      ELSE AccountDiff(<<>>)]))}

\* watching.rs:311-322: trace_state_diff returns and its result is matched;
\* both arms are empty and the loop goes back to recv().
CorrelatorTraceReturn ==
    /\ corr_task = "tracing"
    /\ \E response \in PipelineResponses :
          LET r == trace_state_diff(response, pools, target_address) IN
          /\ trace_result' = r.result
          /\ balance_changes' = r.changes
          /\ corr_task' = after_trace(r.result)
    /\ UNCHANGED <<block_task, tx_task, bus, recv_next, recv_start, received, missed,
                   new_block, invocations, sup_vars, harness_vars, stream_vars>>

\* watching.rs:338-342: join_next() returns the result of a task that ended and
\* the loop waits again; once the set is empty join_next() returns None and
\* watching_pool returns.
JoinNext ==
    /\ sup = "joining"
    /\ \E t \in Terminated \ joined :
          /\ joined' = joined \cup {t}
          /\ sup' = IF joined \cup {t} = Tasks THEN "returned" ELSE "joining"
    /\ UNCHANGED <<block_task, tx_task, bus, corr_vars, harness_vars, stream_vars>>

Next ==
    \/ BlockWatcherPublish
    \/ BlockWatcherDiscard
    \/ BlockWatcherEnd
    \/ TxWatcherPublish
    \/ TxWatcherSkip
    \/ TxWatcherEnd
    \/ SubscribeAndSpawn
    \/ CorrelatorLagged
    \/ CorrelatorNewBlock
    \/ CorrelatorTransaction
    \/ CorrelatorTraceReturn
    \/ JoinNext

Spec == Init /\ [][Next]_vars

(***************************************************************************)
(* SpecWatchers: tasks 1 and 2 alone, with the items their streams have     *)
(* yielded recorded in headers and tx_results.                             *)
(***************************************************************************)
WatchedBlockPublish ==
    /\ Len(headers) + Len(tx_results) < MaxStream
    /\ \E h \in Headers : block_publish(h) /\ headers' = Append(headers, h)
    /\ UNCHANGED tx_results

WatchedBlockDiscard ==
    /\ Len(headers) + Len(tx_results) < MaxStream
    /\ \E h \in Headers : block_discard(h) /\ headers' = Append(headers, h)
    /\ UNCHANGED tx_results

WatchedTxPublish ==
    /\ Len(headers) + Len(tx_results) < MaxStream
    /\ \E r \in Resolutions : tx_publish(r) /\ tx_results' = Append(tx_results, r)
    /\ UNCHANGED headers

WatchedTxSkip ==
    /\ Len(headers) + Len(tx_results) < MaxStream
    /\ \E r \in Resolutions : tx_skip(r) /\ tx_results' = Append(tx_results, r)
    /\ UNCHANGED headers

NextWatchers ==
    \/ WatchedBlockPublish
    \/ WatchedBlockDiscard
    \/ BlockWatcherEnd
    \/ WatchedTxPublish
    \/ WatchedTxSkip
    \/ TxWatcherEnd

SpecWatchers == Init /\ [][NextWatchers]_vars

(***************************************************************************)
(* SpecFee: one call of calculate_next_block_base_fee on drawn arguments.  *)
(***************************************************************************)
BaseFees == {0, 1, 8, 100}

FeeArguments ==
    {[called |-> FALSE, gas_used |-> g, gas_limit |-> l, base_fee_per_gas |-> b, ret |-> None] :
        g \in 0 .. MaxGas, l \in 0 .. MaxGas, b \in BaseFees}

InitFee ==
    /\ PipelineInit
    /\ trace_result = "none"
    /\ balance_changes = {}
    /\ fee_call \in FeeArguments
    /\ an_call = NoAnalyzerCall

\* ret is None when the call panicked, Some(fee) when it returned.
FeeCall ==
    /\ ~fee_call.called
    /\ \E seed \in Seeds :
          fee_call' = [fee_call EXCEPT
                          !.called = TRUE,
                          !.ret = calculate_next_block_base_fee(
                                      fee_call.gas_used, fee_call.gas_limit,
                                      fee_call.base_fee_per_gas, seed)]
    /\ UNCHANGED <<pipeline_vars, trace_result, balance_changes, an_call>>

NextFee == FeeCall

SpecFee == InitFee /\ [][NextFee]_vars

(***************************************************************************)
(* SpecAnalyzer: one call of trace_state_diff on a drawn trace_call        *)
(* response, with the registry `pools` and the target `target_address`.    *)
(***************************************************************************)
InitAnalyzer ==
    /\ PipelineInit
    /\ trace_result = "none"
    /\ balance_changes = {}
    /\ fee_call = NoFeeCall
    /\ an_call \in {[called |-> FALSE, response |-> r] : r \in TraceResponses}

AnalyzerCall ==
    /\ ~an_call.called
    /\ an_call' = [an_call EXCEPT !.called = TRUE]
    /\ LET r == trace_state_diff(an_call.response, pools, target_address) IN
          /\ trace_result' = r.result
          /\ balance_changes' = r.changes
    /\ UNCHANGED <<pipeline_vars, fee_call>>

NextAnalyzer == AnalyzerCall

SpecAnalyzer == InitAnalyzer /\ [][NextAnalyzer]_vars

(***************************************************************************)
(* Properties                                                              *)
(***************************************************************************)
\* Task 3 has handled a NewBlock event.
BlockProcessed == \E i \in 1 .. Len(received) : bus[received[i]].kind = "NewBlock"

\* recv() is about to hand the event at recv_next to task 3.
Receivable == corr_task = "recv" /\ recv_next <= Len(bus) /\ ~lagged(bus, recv_next)

\* The step in which task 3 handles a Transaction event.
HandlesTransaction ==
    /\ Receivable
    /\ bus[recv_next].kind = "Transaction"
    /\ received' = Append(received, recv_next)

\* The step calls trace_state_diff.
Invokes == invocations' # invocations

\* C1: a Transaction event handled before any NewBlock event has been handled
\* makes no trace_state_diff call and leaves task 3 as it was (same new_block,
\* still in its receive loop); every trace_state_diff call ever made is for a
\* transaction handled after some NewBlock event.
C1_NoAnalysisBeforeFirstBlock ==
    /\ [][(HandlesTransaction /\ ~BlockProcessed) =>
            /\ ~Invokes
            /\ new_block' = new_block
            /\ corr_task' = "recv"
            /\ trace_result' = trace_result]_vars
    /\ [](\A inv \in invocations :
            \E i \in 1 .. Len(received) :
                received[i] < inv.pos /\ bus[received[i]].kind = "NewBlock")

\* A transaction that would clear any predicted fee was handled before any
\* block and nothing was invoked.
C1_Witness ==
    /\ ~BlockProcessed
    /\ \E i \in 1 .. Len(received) : bus[received[i]].tx.max_fee_per_gas = Some(150)
    /\ invocations = {}
    /\ corr_task = "recv"

\* C2 as stated: once a NewBlock event has been handled, a Transaction event
\* (for which the fee function returns) leads to a trace_state_diff call if and
\* only if its max_fee_per_gas (0 when absent) exceeds the predicted fee of the
\* last block handled, for the jitter drawn, and the call carries that block's
\* number; block number 0 included.
C2_InvokedIffFeeClears ==
    [][(/\ HandlesTransaction
        /\ BlockProcessed
        /\ new_base_fee(new_block.gas_used, new_block.gas_limit,
                        new_block.base_fee_per_gas) # None) =>
          \E seed \in Seeds :
             LET predicted ==
                     calculate_next_block_base_fee(new_block.gas_used, new_block.gas_limit,
                                                   new_block.base_fee_per_gas, seed)[1]
                 tx == bus[recv_next].tx
             IN /\ Invokes <=> unwrap_or_default(tx.max_fee_per_gas) > predicted
                /\ Invokes =>
                     invocations' = invocations \cup
                         {[pos |-> recv_next, tx |-> tx, block_number |-> new_block.number]}]_vars

\* C3 as stated: while trace_state_diff is pending and an event is waiting on
\* the channel, task 3 can receive it.
C3_ReceivesWhileTracePending ==
    (corr_task = "tracing" /\ recv_next <= Len(bus)) =>
        ENABLED (CorrelatorLagged \/ CorrelatorNewBlock \/ CorrelatorTransaction)

\* The step in which trace_state_diff returns an error to task 3.
TraceFails == corr_task = "tracing" /\ corr_task' # "tracing" /\ trace_result' = "Err"

\* C4: when trace_state_diff returns an error, task 3 keeps new_block and is
\* back in its receive loop, where it takes the next event as soon as there is one.
C4_FailedTraceDoesNotStopCorrelator ==
    /\ [][TraceFails => (corr_task' = "recv" /\ new_block' = new_block
                         /\ recv_next' = recv_next /\ received' = received)]_vars
    /\ [][TraceFails =>
            (recv_next' <= Len(bus') =>
                (ENABLED (CorrelatorLagged \/ CorrelatorNewBlock \/ CorrelatorTransaction))')]_vars

\* A trace failed and task 3 has since handled a later event.
C4_Witness ==
    /\ trace_result = "Err"
    /\ corr_task = "recv"
    /\ invocations # {}
    /\ \A inv \in invocations : \E i \in 1 .. Len(received) : received[i] > inv.pos

\* C5 as stated: for gas_used not above the target, the call returns, and the
\* fee before the jitter is between 0 and base_fee_per_gas.
C5_DecreaseBranchReturns ==
    (fee_call.called /\ fee_call.gas_used <= target_gas_used(fee_call.gas_limit)) =>
        /\ fee_call.ret # None
        /\ \E seed \in Seeds :
              /\ fee_call.ret[1] - seed >= 0
              /\ fee_call.ret[1] - seed <= fee_call.base_fee_per_gas
              /\ new_base_fee(fee_call.gas_used, fee_call.gas_limit,
                              fee_call.base_fee_per_gas) = Some(fee_call.ret[1] - seed)

\* C6 as stated: once join_next() has returned the result of one task,
\* watching_pool has stopped waiting and returned.
C6_FirstTerminationEndsPipeline == joined # {} => sup = "returned"

\* The trace_call of the analysed call returned a state diff.
HasStateDiff == an_call.called /\ an_call.response.ok /\ an_call.response.state_diff # None

AnalyzedDiff == an_call.response.state_diff[1]

\* C7 as stated: a state diff without an entry for the target's account gives
\* Ok with nothing logged.
C7_NoTargetEntryIsOk ==
    (HasStateDiff /\ target_address \notin DOMAIN AnalyzedDiff) =>
        (trace_result = "Ok" /\ balance_changes = {})

\* C8 as stated: a trace_call that succeeds without a state diff gives Ok with
\* nothing logged (the error outcome is left to a failed trace_call).
C8_NoStateDiffIsOk ==
    (an_call.called /\ an_call.response.ok /\ an_call.response.state_diff = None) =>
        (trace_result = "Ok" /\ balance_changes = {})

\* C9: a balance change is logged for a pool, with the values of its slot,
\* exactly when the pool's address is touched by the diff and in the registry,
\* one of its two tokens is the target, and the target's storage diff has a
\* Changed entry at the pool's balance slot with a greater new value; a call
\* without a state diff logs nothing.
C9_ReportedIffBalanceIncreased ==
    /\ HasStateDiff =>
         \A a \in Addresses : \A f \in Amounts \cup {0} : \A t \in Amounts \cup {0} :
            [pool |-> a, from |-> f, to |-> t] \in balance_changes <=>
                /\ a \in DOMAIN AnalyzedDiff
                /\ a \in DOMAIN pools
                /\ pools[a].token_a = target_address \/ pools[a].token_b = target_address
                /\ target_address \in DOMAIN AnalyzedDiff
                /\ balance_slot(a) \in DOMAIN AnalyzedDiff[target_address].storage
                /\ AnalyzedDiff[target_address].storage[balance_slot(a)] = Changed(f, t)
                /\ t > f
    /\ HasStateDiff =>
         \A c \in balance_changes :
            c.pool \in Addresses /\ c.from \in Amounts /\ c.to \in Amounts
    /\ (an_call.called /\ ~HasStateDiff) => balance_changes = {}

\* The V2 pool holding the target as token_b is reported with 1000 -> 1500
\* while the V3 pool, whose slot went 1500 -> 1000, and the pool without the
\* target, whose slot went up, are not.
C9_Witness ==
    /\ HasStateDiff
    /\ balance_changes = {[pool |-> "PoolB", from |-> 1000, to |-> 1500]}
    /\ {"PoolA", "PoolB", "PoolC", "WETH"} \subseteq DOMAIN AnalyzedDiff
    /\ Slots \subseteq DOMAIN AnalyzedDiff["WETH"].storage
    /\ AnalyzedDiff["WETH"].storage[balance_slot("PoolA")] = Changed(1500, 1000)
    /\ AnalyzedDiff["WETH"].storage[balance_slot("PoolC")] = Changed(1000, 1500)

C10_WitnessAll ==
    /\ missed = 0
    /\ Len(bus) = MaxEvents
    /\ Len(received) = Len(bus)
    /\ \E i \in 1 .. Len(bus) : bus[i].kind = "NewBlock"
    /\ \E i \in 1 .. Len(bus) : bus[i].kind = "Transaction"

\* A step in which a watcher sends an event.
Publishes == bus' # bus

\* Room left for a send within the bound of the model.
WithinRun(channel) == Len(channel) < MaxEvents

\* C11: a watcher that is running can always send, whatever task 3 is doing
\* and however many events it has not yet received; and the step that sends
\* stores the event and leaves both watchers running, whatever send returned.
C11_PublishNeverWaits ==
    /\ [][/\ (block_task = "running" /\ WithinRun(bus)) => ENABLED BlockWatcherPublish
          /\ (tx_task = "running" /\ WithinRun(bus)) => ENABLED TxWatcherPublish
          /\ (block_task' = "running" /\ WithinRun(bus')) => (ENABLED BlockWatcherPublish)'
          /\ (tx_task' = "running" /\ WithinRun(bus')) => (ENABLED TxWatcherPublish)']_vars
    /\ [][Publishes => /\ Len(bus') = Len(bus) + 1
                       /\ block_task' = block_task
                       /\ tx_task' = tx_task]_vars

\* Task 3 is suspended in trace_state_diff, a watcher has sent since, the
\* channel is full of events task 3 has not received, and both watchers run on.
C11_Witness ==
    /\ corr_task = "tracing"
    /\ Len(bus) - recv_next + 1 >= BusCapacity
    /\ recv_next <= Len(bus)
    /\ block_task = "running"
    /\ tx_task = "running"

\* The step in which recv() returns Err(Lagged): events were lost to task 3.
ReceiveLagged == missed' > missed

\* C12: the step in which recv() reports lost events leaves task 3 in its loop
\* with new_block and the events received so far as they were, and puts the
\* receiver on the oldest event the channel still holds, which recv() can then
\* hand out; from then on every event waiting for task 3 can be received.
C12_LagIsRecoverableGap ==
    /\ [][ReceiveLagged =>
            /\ corr_task' = "recv"
            /\ new_block' = new_block
            /\ received' = received
            /\ recv_next' = oldest_retained(bus)
            /\ recv_next' <= Len(bus')
            /\ ~lagged(bus', recv_next')
            /\ (ENABLED (CorrelatorNewBlock \/ CorrelatorTransaction))']_vars
    /\ [][(missed' > 0 /\ corr_task' = "recv" /\ recv_next' <= Len(bus')) =>
            (ENABLED (CorrelatorLagged \/ CorrelatorNewBlock \/ CorrelatorTransaction))']_vars

\* Task 3 took a block, fell behind and lost an event, and then received the
\* event still in the channel with the block it held before the gap.
C12_Witness ==
    /\ missed > 0
    /\ corr_task = "recv"
    /\ Len(received) >= 2
    /\ bus[received[1]].kind = "NewBlock"
    /\ bus[received[1]].block.number # 0
    /\ received[2] > received[1] + 1
    /\ bus[received[2]].kind = "Transaction"
    /\ new_block = bus[received[1]].block

\* The step in which task 3 handles a NewBlock event.
HandlesNewBlock ==
    /\ Receivable
    /\ bus[recv_next].kind = "NewBlock"
    /\ received' = Append(received, recv_next)

\* C13 as stated: the block number held in new_block never decreases.
C13_NumberNeverDecreases == [][new_block'.number >= new_block.number]_vars

\* C13, amended: the number held in new_block is the number of the NewBlock
\* event handled last; it decreases exactly in the steps that handle a NewBlock
\* event whose number is below the one held, and changes in no other kind of step.
C13_NumberFollowsLastBlock ==
    /\ [][HandlesNewBlock => new_block'.number = bus[recv_next].block.number]_vars
    /\ [][new_block'.number < new_block.number <=>
            (HandlesNewBlock /\ bus[recv_next].block.number < new_block.number)]_vars
    /\ [][new_block'.number # new_block.number => HandlesNewBlock]_vars

\* Task 3 handled block 1 and then block 0, and holds number 0.
C13_Witness ==
    /\ Len(received) = 2
    /\ bus[received[1]].kind = "NewBlock"
    /\ bus[received[1]].block.number = 1
    /\ bus[received[2]].kind = "NewBlock"
    /\ bus[received[2]].block.number = 0
    /\ new_block.number = 0

\* The positions in received of the NewBlock events task 3 has handled.
HandledBlocks == {i \in 1 .. Len(received) : bus[received[i]].kind = "NewBlock"}

\* The payload of the last NewBlock event handled, or the default block.
LastBlockHandled ==
    IF HandledBlocks = {}
    THEN DefaultBlock
    ELSE bus[received[CHOOSE i \in HandledBlocks : \A j \in HandledBlocks : j <= i]].block

\* C14: new_block is always the payload of the last NewBlock event handled
\* (the default block while there is none); handling a NewBlock event puts its
\* payload in new_block whatever was held, and no other step changes new_block:
\* not handling a Transaction event, nor the return of trace_state_diff.
C14_CurrentBlockIsLastNewBlock ==
    /\ [][new_block = LastBlockHandled /\ new_block' = LastBlockHandled']_vars
    /\ [][HandlesNewBlock => new_block' = bus[recv_next].block]_vars
    /\ [][(HandlesTransaction \/ corr_task = "tracing") => new_block' = new_block]_vars

\* Task 3 handled a block, then one with a lower number, then a transaction;
\* it holds the second block.
C14_Witness ==
    /\ Len(received) = 3
    /\ bus[received[1]].kind = "NewBlock"
    /\ bus[received[2]].kind = "NewBlock"
    /\ bus[received[2]].block.number < bus[received[1]].block.number
    /\ bus[received[3]].kind = "Transaction"
    /\ new_block = bus[received[2]].block
    /\ new_block # DefaultBlock

IsNewBlock(event) == event.kind = "NewBlock"

IsTransaction(event) == event.kind = "Transaction"

HasNumber(h) == h.number # None

IsResolved(r) == r.ok

\* The NewBlock events sent so far, in send order.
BlocksSent == SelectSeq(bus, IsNewBlock)

\* The headers with a number the subscription has yielded so far, in arrival order.
NumberedHeaders == SelectSeq(headers, HasNumber)

\* The step in which the block watcher takes a header without a number.
DiscardsHeader == headers' # headers /\ ~HasNumber(headers'[Len(headers')])

\* C15: the NewBlock events sent are, one for one and in arrival order, the
\* headers that have a number, each with the header's number, gas_used and
\* gas_limit and with the header's base fee, or 0 when it has none; taking a
\* header without a number sends nothing and leaves the watcher running, ready
\* for its next header.
C15_OneNewBlockPerNumberedHeader ==
    /\ [][/\ Len(BlocksSent') = Len(NumberedHeaders')
          /\ \A i \in 1 .. Len(BlocksSent') :
                LET b == BlocksSent'[i].block
                    h == NumberedHeaders'[i]
                IN /\ b.number = h.number[1]
                   /\ b.gas_used = h.gas_used
                   /\ b.gas_limit = h.gas_limit
                   /\ b.base_fee_per_gas =
                         IF h.base_fee_per_gas = None THEN 0 ELSE h.base_fee_per_gas[1]]_vars
    /\ [][DiscardsHeader =>
            /\ bus' = bus
            /\ block_task' = "running"
            /\ (Len(headers') + Len(tx_results') < MaxStream /\ WithinRun(bus'))
                  => (ENABLED WatchedBlockPublish)']_vars

\* The subscription yielded a header without a number between two with one,
\* the second without a base fee; two NewBlock events were sent, the second
\* with base fee 0.
C15_Witness ==
    /\ Len(headers) = 3
    /\ HasNumber(headers[1])
    /\ ~HasNumber(headers[2])
    /\ HasNumber(headers[3])
    /\ headers[3].base_fee_per_gas = None
    /\ Len(BlocksSent) = 2
    /\ BlocksSent[2].block.base_fee_per_gas = 0
    /\ block_task = "running"

\* The Transaction events sent so far, in send order.
TransactionsSent == SelectSeq(bus, IsTransaction)

\* The resolutions that succeeded so far, in the order the stream yielded them.
Resolved == SelectSeq(tx_results, IsResolved)

\* The step in which the transaction watcher takes a failed resolution.
ResolutionFails == tx_results' # tx_results /\ ~IsResolved(tx_results'[Len(tx_results')])

\* C16: the Transaction events sent are, one for one and in stream order, the
\* transactions whose resolution succeeded, whether before or after a failed
\* one; the step that takes a failed resolution sends nothing and leaves the
\* watcher running, ready for its next item; and the watcher ends only in a step
\* that takes no item, the end of the stream.
C16_ResolutionFailureIsSkipped ==
    /\ [][/\ Len(TransactionsSent') = Len(Resolved')
          /\ \A i \in 1 .. Len(Resolved') : TransactionsSent'[i].tx = Resolved'[i].tx]_vars
    /\ [][ResolutionFails =>
            /\ bus' = bus
            /\ tx_task' = "running"
            /\ (Len(headers') + Len(tx_results') < MaxStream /\ WithinRun(bus'))
                  => (ENABLED WatchedTxPublish)']_vars
    /\ [][(tx_task = "running" /\ tx_task' # "running") =>
            (tx_results' = tx_results /\ bus' = bus)]_vars

\* A resolution failed, the next two succeeded and both transactions were sent.
C16_Witness ==
    /\ Len(tx_results) = 3
    /\ ~IsResolved(tx_results[1])
    /\ IsResolved(tx_results[2])
    /\ IsResolved(tx_results[3])
    /\ Len(TransactionsSent) = 2
    /\ TransactionsSent[1].tx = tx_results[2].tx
    /\ TransactionsSent[2].tx = tx_results[3].tx
    /\ tx_task = "running"

\* C17 as stated: with gas_limit 0 or 1 the target is 1 and the call returns a
\* fee, whatever gas_used and base_fee_per_gas are.
C17_ClampedTargetReturnsFee ==
    (fee_call.called /\ fee_call.gas_limit \in {0, 1}) =>
        /\ target_gas_used(fee_call.gas_limit) = 1
        /\ fee_call.ret # None

\* new_block is a block at its gas target with base fee 100.
AtTargetScenario ==
    /\ new_block.gas_used = target_gas_used(new_block.gas_limit)
    /\ new_block.base_fee_per_gas = 100

\* C18 as stated: for a block at target with base fee 100 the prediction is
\* 100 plus a jitter of 0..8; a transaction with max fee 99 handled while that
\* block is held is not passed to trace_state_diff and one with max fee 150 is.
C18_AtTargetForwarding ==
    [][(HandlesTransaction /\ AtTargetScenario) =>
          /\ \A seed \in Seeds :
                LET predicted ==
                        calculate_next_block_base_fee(new_block.gas_used, new_block.gas_limit,
                                                      new_block.base_fee_per_gas, seed)
                IN /\ predicted # None
                   /\ predicted[1] - 100 \in 0 .. 8
          /\ bus[recv_next].tx.max_fee_per_gas = Some(99) => ~Invokes
          /\ bus[recv_next].tx.max_fee_per_gas = Some(150) => Invokes]_vars

\* The call was made with gas_used above the target.
AboveTarget == fee_call.called /\ fee_call.gas_used > target_gas_used(fee_call.gas_limit)

\* C19: for a call with gas_used above the target, the fee before jitter is
\* returned (plus a jitter), is at least base_fee_per_gas, and is at least the
\* fee the same gas_limit and base_fee_per_gas give for every smaller gas_used
\* above the target, which is at least base_fee_per_gas too.
C19_MonotoneAboveTarget ==
    AboveTarget =>
        LET g2 == fee_call.gas_used
            l == fee_call.gas_limit
            b == fee_call.base_fee_per_gas
        IN /\ new_base_fee(g2, l, b) # None
           /\ \E seed \in Seeds : fee_call.ret = Some(new_base_fee(g2, l, b)[1] + seed)
           /\ \A g1 \in (target_gas_used(l) + 1) .. g2 :
                 /\ new_base_fee(g1, l, b) # None
                 /\ new_base_fee(g1, l, b)[1] >= b
                 /\ new_base_fee(g1, l, b)[1] <= new_base_fee(g2, l, b)[1]

\* A call with gas_used 4 over target 2 and base fee 100 returned; gas_used 3
\* gives a strictly lower fee that is still above the base fee.
C19_Witness ==
    /\ AboveTarget
    /\ fee_call.gas_used = 4
    /\ fee_call.gas_limit = 4
    /\ fee_call.base_fee_per_gas = 100
    /\ fee_call.ret # None
    /\ new_base_fee(3, 4, 100)[1] > 100
    /\ new_base_fee(3, 4, 100)[1] < new_base_fee(4, 4, 100)[1]

\* C20 as stated: whenever a watcher has sent an event, task 3's receiver was
\* already subscribed, so it started before the first event of the channel.
C20_SubscribedBeforeFirstPublish ==
    /\ bus # <<>> => corr_task # "unspawned"
    /\ recv_start = 1

====
